---------------------------- MODULE Spec2Model ----------------------------
(***************************************************************************)
(* Model of the URL shortener of src/short-url-api/routes/shortUrl.js over *)
(* the two tables of src/sql/sqlurl.sql.                                   *)
(*                                                                         *)
(* Every db.query of the source is one action: the statement executes on   *)
(* the tables and its callback runs on the result.  A handler with two     *)
(* statements on the write path (POST /shorten, GET /shorten/:alias) is    *)
(* two actions, with the second statement waiting in `pending` in between, *)
(* so that other requests interleave exactly where the event loop lets     *)
(* them.  `out` is the HTTP response just written; the client takes it     *)
(* (Deliver) before the server's next step, which leaves the server's own  *)
(* behaviour untouched because the server never reads a response back.     *)
(***************************************************************************)
EXTENDS Integers, Sequences, FiniteSets, Bags, TLC

VARIABLES urls,      \* table urls: sequence of rows, in id order
          events,    \* table url_analytics: sequence of rows, in id order
          pending,   \* bag of statements issued and not yet executed
          out,       \* the response just written, NoResp when none
          today,     \* the calendar day of the server's clock (day number)
          prev       \* history: the last alias report answered on this day,
                     \* and whether it repeated the one before

vars == <<urls, events, pending, out, today, prev>>

\* ------------------------------------------------------------ bounds
MaxInFlight == 2     \* statements waiting in `pending` at once
MaxEvents == 2       \* rows of url_analytics

\* ------------------------------------------------------------ program constants
DaysBack == 7        \* moment().subtract(7, 'days')

\* the modelled period: days 0..LastDay, one day longer than the window of
\* the alias report, so that a click can be older than that window
LastDay == DaysBack + 1

\* the days on which clicks are recorded: the first day, the day after, and
\* the day the first report is computed.  On day DaysBack they are 7, 6 and
\* 0 days old, on day LastDay 8, 7 and 1.
ClickDays == {0, 1, DaysBack}

\* ------------------------------------------------------------ values
Null == "<null>"             \* SQL NULL / JS null
Undefined == "<undefined>"   \* a JS property that is not there

LongUrls == {"http://x.com", "http://y.com"}
Aliases == {"abc", "tok"}    \* custom aliases and shortid tokens share a namespace
Topics == {"T"}
IPs == {"1.1.1.1", "2.2.2.2"}

NoResp == [op |-> "none"]
NoPrev == [alias |-> Null]

\* JS truthiness of the values a request field can take
IsFalsy(v) == v \in {Undefined, Null, ""}

\* a || b
Or(a, b) == IF IsFalsy(a) THEN b ELSE a

\* a parameter bound to a ? placeholder: the driver sends undefined as NULL
SqlParam(v) == IF v = Undefined THEN Null ELSE v

Range(s) == {s[i] : i \in 1..Len(s)}


\* ------------------------------------------------------------ storage
\* (variant) the table without its UNIQUE keys
UrlConstraintsOk_NoUnique(row, table) ==
    /\ row.long_url # Null
    /\ row.short_url # Null

\* CREATE TABLE urls: long_url NOT NULL, short_url UNIQUE NOT NULL,
\* custom_alias UNIQUE (any number of NULLs)
UrlConstraintsOk(row, table) ==
    /\ row.long_url # Null
    /\ row.short_url # Null
    /\ \A r \in Range(table) : r.short_url # row.short_url
    /\ row.custom_alias # Null =>
           \A r \in Range(table) : r.custom_alias # row.custom_alias

\* SELECT * FROM urls WHERE custom_alias = ?   (col = NULL is never true)
checkAliasQuery(customAlias) ==
    {r \in Range(urls) : SqlParam(customAlias) # Null
                         /\ r.custom_alias = SqlParam(customAlias)}

\* SELECT * FROM urls WHERE short_url = ? OR custom_alias = ? LIMIT 1
\* the rows LIMIT 1 may keep: no ORDER BY, so any matching row
findUrlQuery(alias) ==
    {r \in Range(urls) : r.short_url = alias \/ r.custom_alias = alias}

\* geoip.lookup(ip) || { country: 'Unknown', ... }: the address database is
\* an external table; an address it does not hold ('Unknown' too) gives null
GeoDb ==
    [ip \in IPs |-> IF ip = "1.1.1.1"
                    THEN [city |-> "", region |-> "", country |-> "AU"]
                    ELSE [city |-> "", region |-> "", country |-> "FR"]]

GeoLookup(ip) ==
    IF ip \in DOMAIN GeoDb THEN GeoDb[ip]
    ELSE [city |-> "Unknown", region |-> "Unknown", country |-> "Unknown"]

InFlight == BagCardinality(pending)

Waiting(kind) == {c \in BagToSet(pending) : c.k = kind}

\* rows of url_analytics now stored or about to be
EventsClaimed ==
    Len(events) + BagCardinality([c \in Waiting("insertAnalytics") |-> pending[c]])

\* ------------------------------------------------------------ POST /shorten
\* the insert's callback: 500 on any error (a UNIQUE violation included)
CreateInsertResponse(failed, row) ==
    IF failed
    THEN [op |-> "shorten", status |-> 500,
          error |-> "Failed to create short URL", row |-> row]
    ELSE [op |-> "shorten", status |-> 201, shortUrl |-> row.short_url, row |-> row]

\* lines 25 and 43: shortUrl = customAlias || shortid.generate(), and the
\* values bound to the INSERT
NewUrlRow(longUrl, customAlias, topic, generated) ==
    [long_url |-> longUrl, short_url |-> Or(customAlias, generated),
     custom_alias |-> Or(customAlias, Null), topic |-> Or(topic, Null)]

\* (variant) results.length > 1
AliasInUse_OffByOne(results) == Cardinality(results) > 1

\* line 34: results.length > 0
AliasInUse(results) == results # {}

\* lines 18-43: validation, the alias check and its callback up to the
\* point where the insert is issued.  generated is shortid.generate().
CreateCheck(longUrl, customAlias, topic, generated, err) ==
    /\ out = NoResp
    /\ InFlight < MaxInFlight
    /\ UNCHANGED <<urls, events, today, prev>>
    /\ IF IsFalsy(longUrl)
       THEN /\ out' = [op |-> "shorten", status |-> 400,
                       error |-> "longUrl is required"]
            /\ UNCHANGED pending
       ELSE LET row == NewUrlRow(longUrl, customAlias, topic, generated)
                results == checkAliasQuery(customAlias)
            IN  IF err
                THEN /\ out' = [op |-> "shorten", status |-> 500,
                                error |-> "Database error", row |-> row]
                     /\ UNCHANGED pending
                ELSE IF AliasInUse(results)
                THEN /\ out' = [op |-> "shorten", status |-> 400,
                                error |-> "Custom alias already in use",
                                row |-> row]
                     /\ UNCHANGED pending
                ELSE /\ pending' = pending (+) SetToBag({[k |-> "insertUrl", row |-> row]})
                     /\ UNCHANGED out

\* lines 43-54: the INSERT executes and its callback answers
CreateInsert(c, err) ==
    /\ out = NoResp
    /\ c \in Waiting("insertUrl")
    /\ pending' = pending (-) SetToBag({c})
    /\ LET failed == err \/ ~UrlConstraintsOk(c.row, urls)
       IN  /\ urls' = IF failed THEN urls ELSE Append(urls, c.row)
           /\ out' = CreateInsertResponse(failed, c.row)
    /\ UNCHANGED <<events, today, prev>>

\* ------------------------------------------------------------ GET /shorten/:alias
\* (variant) the callback answers the error
LogAnalyticsResponse_Answers(err, resp) ==
    IF err THEN [op |-> "redirect", alias |-> Null, status |-> 500,
                 error |-> "Database error"]
    ELSE resp

\* lines 86-90: the callback of the analytics insert only logs
LogAnalyticsResponse(err, resp) == resp

\* lines 76-86: the values bound to the analytics INSERT
NewEventRow(alias, userAgent, ip) ==
    LET ipAddress == Or(ip, "Unknown")
        geo == GeoLookup(ipAddress)
    IN  [alias |-> alias, user_agent |-> SqlParam(userAgent),
         ip_address |-> ipAddress,
         geolocation |-> <<geo.city, geo.region, geo.country>>]

\* the row as stored: timestamp DEFAULT CURRENT_TIMESTAMP, kept as its day
StoredEvent(row, day) ==
    [alias |-> row.alias, date |-> day, user_agent |-> row.user_agent,
     ip_address |-> row.ip_address, geolocation |-> row.geolocation]

\* lines 59-93: the lookup and its callback, which issues the analytics
\* insert and then redirects without waiting for it
RedirectFind(alias, userAgent, ip, err) ==
    /\ out = NoResp
    /\ InFlight < MaxInFlight
    /\ EventsClaimed < MaxEvents
    /\ UNCHANGED <<urls, events, today, prev>>
    /\ IF err
       THEN /\ out' = [op |-> "redirect", alias |-> alias, status |-> 500,
                       error |-> "Database error"]
            /\ UNCHANGED pending
       ELSE IF findUrlQuery(alias) = {}
       THEN /\ out' = [op |-> "redirect", alias |-> alias, status |-> 404,
                       error |-> "Short URL not found"]
            /\ UNCHANGED pending
       ELSE \E r \in findUrlQuery(alias) :
              LET row == NewEventRow(alias, userAgent, ip)
              IN  /\ pending' = pending (+)
                                  SetToBag({[k |-> "insertAnalytics", row |-> row]})
                  /\ out' = [op |-> "redirect", alias |-> alias, status |-> 302,
                             location |-> r.long_url]

\* lines 86-90: the analytics INSERT executes; timestamp DEFAULT CURRENT_TIMESTAMP
EventInsert(c, err) ==
    /\ out = NoResp
    /\ c \in Waiting("insertAnalytics")
    /\ pending' = pending (-) SetToBag({c})
    /\ events' = IF err THEN events
                 ELSE Append(events, StoredEvent(c.row, today))
    /\ out' = LogAnalyticsResponse(err, out)
    /\ UNCHANGED <<urls, today, prev>>

\* the client reads the response
Deliver ==
    /\ out # NoResp
    /\ out' = NoResp
    /\ UNCHANGED <<urls, events, pending, today, prev>>

\* ------------------------------------------------------------ write paths
\* the request bodies POST /shorten is tried with: the spec's scenario
\* (x.com then y.com under the alias "abc"), a request that leaves the alias
\* to shortid, one whose alias is the empty string, one without longUrl
ShortenBodies ==
    { [longUrl |-> "http://x.com", customAlias |-> "abc", topic |-> "T"],
      [longUrl |-> "http://y.com", customAlias |-> "abc", topic |-> Undefined],
      [longUrl |-> "http://y.com", customAlias |-> Undefined, topic |-> "T"],
      [longUrl |-> "http://x.com", customAlias |-> "", topic |-> Undefined],
      [longUrl |-> Undefined, customAlias |-> "abc", topic |-> Undefined] }

RequestAgents == {Undefined, "Mozilla Windows"}   \* header absent or present
RequestIps == {"1.1.1.1"}                         \* req.ip

Init ==
    /\ urls = <<>>
    /\ events = <<>>
    /\ pending = EmptyBag
    /\ out = NoResp
    /\ today = 0
    /\ prev = NoPrev

Next ==
    \/ \E body \in ShortenBodies, generated \in Aliases, err \in BOOLEAN :
            CreateCheck(body.longUrl, body.customAlias, body.topic, generated, err)
    \/ \E c \in Waiting("insertUrl"), err \in BOOLEAN : CreateInsert(c, err)
    \/ \E alias \in Aliases, userAgent \in RequestAgents, ip \in RequestIps,
          err \in BOOLEAN :
            RedirectFind(alias, userAgent, ip, err)
    \/ \E c \in Waiting("insertAnalytics"), err \in BOOLEAN : EventInsert(c, err)
    \/ Deliver

Spec == Init /\ [][Next]_vars


\* ------------------------------------------------------------ strings and dates
UpperCase == <<"A","B","C","D","E","F","G","H","I","J","K","L","M",
               "N","O","P","Q","R","S","T","U","V","W","X","Y","Z">>
LowerCase == <<"a","b","c","d","e","f","g","h","i","j","k","l","m",
               "n","o","p","q","r","s","t","u","v","w","x","y","z">>

\* String.prototype.toLowerCase, on a string given as its characters
toLowerCase(str) ==
    [i \in 1..Len(str) |->
        IF \E j \in 1..Len(UpperCase) : UpperCase[j] = str[i]
        THEN LowerCase[CHOOSE j \in 1..Len(UpperCase) : UpperCase[j] = str[i]]
        ELSE str[i]]

\* String.prototype.includes
includes(str, sub) ==
    \E i \in 0..(Len(str) - Len(sub)) : SubSeq(str, i + 1, i + Len(sub)) = sub

\* the user-agent headers requests arrive with, each with its characters
UAText ==
    [ua \in {"Mozilla Windows", "Mozilla iPhone", "Macintosh", "X11 Linux",
             "Linux Android Mobile", "Android", "iOS", "Opera Mobile", "curl", ""} |->
      CASE ua = "Mozilla Windows" ->
             <<"M","o","z","i","l","l","a"," ","W","i","n","d","o","w","s">>
        [] ua = "Mozilla iPhone" ->
             <<"M","o","z","i","l","l","a"," ","i","P","h","o","n","e">>
        [] ua = "Macintosh" -> <<"M","a","c","i","n","t","o","s","h">>
        [] ua = "X11 Linux" -> <<"X","1","1"," ","L","i","n","u","x">>
        [] ua = "Linux Android Mobile" ->
             <<"L","i","n","u","x"," ","A","n","d","r","o","i","d"," ",
               "M","o","b","i","l","e">>
        [] ua = "Android" -> <<"A","n","d","r","o","i","d">>
        [] ua = "iOS" -> <<"i","O","S">>
        [] ua = "Opera Mobile" ->
             <<"O","p","e","r","a"," ","M","o","b","i","l","e">>
        [] ua = "curl" -> <<"c","u","r","l">>
        [] OTHER -> <<>>]

UserAgents == DOMAIN UAText

\* the calendar date of day number n, as the digits of its YYYY-MM-DD string
\* (the dashes stand at the same places in every date).  Day 0 is 2024-12-28,
\* so the modelled period runs over the end of a month and of a year.
FormatDate(n) ==
    LET ymd == IF n <= 3 THEN <<2024, 12, 28 + n>> ELSE <<2025, 1, n - 3>>
        y == ymd[1]
        m == ymd[2]
        d == ymd[3]
    IN  <<y \div 1000, (y \div 100) % 10, (y \div 10) % 10, y % 10,
          m \div 10, m % 10, d \div 10, d % 10>>

\* a >= b on two strings of the same length, character by character
RECURSIVE StrGeq(_, _)
StrGeq(a, b) ==
    IF a = <<>> THEN TRUE
    ELSE IF Head(a) # Head(b) THEN Head(a) > Head(b)
         ELSE StrGeq(Tail(a), Tail(b))

\* ------------------------------------------------------------ grouped queries
\* the distinct elements of s[1..n] in the order of their first occurrence
RECURSIVE DistinctUpTo(_, _)
DistinctUpTo(s, n) ==
    IF n = 0 THEN <<>>
    ELSE LET d == DistinctUpTo(s, n - 1)
         IN  IF s[n] \in Range(d) THEN d ELSE Append(d, s[n])

\* record.field in JS: undefined when the row has no such column
Field(record, name) ==
    IF name \in DOMAIN record THEN record[name] ELSE Undefined

\* (variant) the statement without its WHERE clause
analyticsQuery_NoWhere(alias) ==
    LET rows == events
        keys == [i \in 1..Len(rows) |-> <<rows[i].date, rows[i].user_agent>>]
        groups == DistinctUpTo(keys, Len(keys))
        members(g) == {i \in 1..Len(rows) : keys[i] = groups[g]}
    IN  [g \in 1..Len(groups) |->
            [alias |-> alias,
             click_date |-> groups[g][1],
             user_agent |-> groups[g][2],
             total_clicks |-> Cardinality(members(g)),
             unique_users |-> Cardinality({rows[i].ip_address : i \in members(g)})]]

\* lines 113-123: SELECT alias, DATE(timestamp) AS click_date, user_agent,
\* COUNT(*) AS total_clicks, COUNT(DISTINCT ip_address) AS unique_users
\* FROM url_analytics WHERE alias = ? GROUP BY alias, DATE(timestamp), user_agent
analyticsQuery(alias) ==
    LET rows == SelectSeq(events, LAMBDA e : e.alias = alias)
        keys == [i \in 1..Len(rows) |-> <<rows[i].date, rows[i].user_agent>>]
        groups == DistinctUpTo(keys, Len(keys))
        members(g) == {i \in 1..Len(rows) : keys[i] = groups[g]}
    IN  [g \in 1..Len(groups) |->
            [alias |-> alias,
             click_date |-> groups[g][1],
             user_agent |-> groups[g][2],
             total_clicks |-> Cardinality(members(g)),
             unique_users |-> Cardinality({rows[i].ip_address : i \in members(g)})]]

\* lines 232-242: the same columns FROM url_analytics WHERE alias IN (...)
\* GROUP BY alias, DATE(timestamp).  user_agent is then any value of the
\* group (a server in ONLY_FULL_GROUP_BY mode rejects the statement instead,
\* which is the err of GetTopicReport); the handler never reads it, so the
\* row is modelled without it.
topicAnalyticsQuery(aliases) ==
    LET rows == SelectSeq(events, LAMBDA e : e.alias \in aliases)
        keys == [i \in 1..Len(rows) |-> <<rows[i].alias, rows[i].date>>]
        groups == DistinctUpTo(keys, Len(keys))
        members(g) == {i \in 1..Len(rows) : keys[i] = groups[g]}
    IN  [g \in 1..Len(groups) |->
            [alias |-> groups[g][1],
             click_date |-> groups[g][2],
             total_clicks |-> Cardinality(members(g)),
             unique_users |-> Cardinality({rows[i].ip_address : i \in members(g)})]]

\* SELECT * FROM urls WHERE topic = ?
topicUrlsQuery(topic) == SelectSeq(urls, LAMBDA r : r.topic = topic)

\* ------------------------------------------------------------ GET /analytics/:alias
RECURSIVE SumClicks(_, _)
\* reduce((sum, record) => sum + record.total_clicks, 0) over results[1..n]
SumClicks(results, n) ==
    IF n = 0 THEN 0 ELSE SumClicks(results, n - 1) + results[n].total_clicks

\* line 132
totalClicksOf(results) == SumClicks(results, Len(results))

\* line 135: new Set(results.map(record => record.ip_address)).size
uniqueUsersOf(results) ==
    Cardinality({Field(results[i], "ip_address") : i \in 1..Len(results)})

\* line 138: moment().subtract(7, 'days').format('YYYY-MM-DD')
sevenDaysAgo == FormatDate(today - DaysBack)

\* (variant) no test, as in the topic handler
InLast7Days_Always(clickDate) == TRUE

\* line 143: the test that lets a record into clicksByDate
InLast7Days(clickDate) == StrGeq(clickDate, sevenDaysAgo)

\* clicksByDate[clickDate] = (clicksByDate[clickDate] || 0) + n, on an object
\* kept as its entries in insertion order
AddClicks(map, clickDate, n) ==
    IF \E i \in 1..Len(map) : map[i].date = clickDate
    THEN [i \in 1..Len(map) |->
            IF map[i].date = clickDate
            THEN [date |-> clickDate, clickCount |-> map[i].clickCount + n]
            ELSE map[i]]
    ELSE Append(map, [date |-> clickDate, clickCount |-> n])

RECURSIVE clicksByDateUpTo(_, _)
\* lines 139-151, after the first n records
clicksByDateUpTo(results, n) ==
    IF n = 0 THEN <<>>
    ELSE LET map == clicksByDateUpTo(results, n - 1)
             clickDate == FormatDate(results[n].click_date)
         IN  IF InLast7Days(clickDate)
             THEN AddClicks(map, clickDate, results[n].total_clicks)
             ELSE map

\* lines 159-163, on the lower-cased user agent
osNameOf(userAgent) ==
    IF includes(userAgent, <<"w","i","n","d","o","w","s">>) THEN "Windows"
    ELSE IF includes(userAgent, <<"m","a","c">>) THEN "macOS"
    ELSE IF includes(userAgent, <<"l","i","n","u","x">>) THEN "Linux"
    ELSE IF includes(userAgent, <<"a","n","d","r","o","i","d">>) THEN "Android"
    ELSE IF includes(userAgent, <<"i","o","s">>)
            \/ includes(userAgent, <<"i","p","h","o","n","e">>) THEN "iOS"
    ELSE "Other"

\* lines 180-184
deviceNameOf(userAgent) ==
    IF includes(userAgent, <<"m","o","b","i","l","e">>)
       \/ includes(userAgent, <<"a","n","d","r","o","i","d">>)
       \/ includes(userAgent, <<"i","p","h","o","n","e">>)
    THEN "mobile" ELSE "desktop"

\* lines 165-167 and 186-192: map[name] = map[name] || {name, 0, new Set()};
\* then the record's clicks and ip_address go into that bucket
AddToBucket(map, name, record) ==
    LET map1 == IF \E i \in 1..Len(map) : map[i].name = name THEN map
                ELSE Append(map, [name |-> name, uniqueClicks |-> 0,
                                  uniqueUsers |-> {}])
    IN  [i \in 1..Len(map1) |->
            IF map1[i].name = name
            THEN [name |-> name,
                  uniqueClicks |-> map1[i].uniqueClicks + record.total_clicks,
                  uniqueUsers |-> map1[i].uniqueUsers
                                    \cup {Field(record, "ip_address")}]
            ELSE map1[i]]

RECURSIVE osTypeMapUpTo(_, _)
\* lines 154-168, after the first n records
osTypeMapUpTo(results, n) ==
    IF n = 0 THEN <<>>
    ELSE AddToBucket(osTypeMapUpTo(results, n - 1),
                     osNameOf(toLowerCase(UAText[results[n].user_agent])),
                     results[n])

RECURSIVE deviceTypeMapUpTo(_, _)
\* lines 177-193, after the first n records
deviceTypeMapUpTo(results, n) ==
    IF n = 0 THEN <<>>
    ELSE AddToBucket(deviceTypeMapUpTo(results, n - 1),
                     deviceNameOf(toLowerCase(UAText[results[n].user_agent])),
                     results[n])

\* lines 170-174
osTypeArray(map) ==
    [i \in 1..Len(map) |-> [osName |-> map[i].name,
                            uniqueClicks |-> map[i].uniqueClicks,
                            uniqueUsers |-> Cardinality(map[i].uniqueUsers)]]

\* lines 195-199
deviceTypeArray(map) ==
    [i \in 1..Len(map) |-> [deviceName |-> map[i].name,
                            uniqueClicks |-> map[i].uniqueClicks,
                            uniqueUsers |-> Cardinality(map[i].uniqueUsers)]]

\* lines 131-208: the response object
AliasReportBody(results) ==
    [totalClicks |-> totalClicksOf(results),
     uniqueUsers |-> uniqueUsersOf(results),
     clicksByDate |-> clicksByDateUpTo(results, Len(results)),
     osType |-> osTypeArray(osTypeMapUpTo(results, Len(results))),
     deviceType |-> deviceTypeArray(deviceTypeMapUpTo(results, Len(results)))]

\* (variant) the handler records its own request as a click
AliasReportWrites_Logs(alias) ==
    /\ events' = Append(events,
                        StoredEvent(NewEventRow(alias, "Mozilla Windows", "1.1.1.1"),
                                    today))
    /\ UNCHANGED urls

\* the tables as the handler leaves them: it issues SELECTs only
AliasReportWrites(alias) == UNCHANGED <<urls, events>>

\* lines 98-213.  err1 and err2 are the failures of the two SELECTs.  A
\* record whose user_agent is NULL (a redirect without the header) makes
\* record.user_agent.toLowerCase() throw inside the callback: nothing is
\* written to the client (status 0).
GetAliasReport(alias, err1, err2) ==
    /\ out = NoResp
    /\ AliasReportWrites(alias)
    /\ UNCHANGED <<pending, today>>
    /\ LET results == analyticsQuery(alias)
           answer ==
             IF err1
             THEN [op |-> "analytics", alias |-> alias, status |-> 500,
                   error |-> "Database error"]
             ELSE IF findUrlQuery(alias) = {}
             THEN [op |-> "analytics", alias |-> alias, status |-> 404,
                   error |-> "Short URL not found"]
             ELSE IF err2
             THEN [op |-> "analytics", alias |-> alias, status |-> 500,
                   error |-> "Error fetching analytics data"]
             ELSE IF \E i \in 1..Len(results) : results[i].user_agent = Null
             THEN [op |-> "analytics", alias |-> alias, status |-> 0,
                   error |-> "TypeError"]
             ELSE [op |-> "analytics", alias |-> alias, status |-> 200,
                   body |-> AliasReportBody(results)]
       IN  /\ out' = answer
           /\ prev' = IF answer.status = 200
                      THEN [alias |-> alias, body |-> answer.body,
                            again |-> prev.alias = alias]
                      ELSE prev

\* ------------------------------------------------------------ GET /analytics/topic/:topic
RECURSIVE topicClicksByDateUpTo_Last7(_, _)
\* (variant) the test of the alias handler applied here too
topicClicksByDateUpTo_Last7(results, n) ==
    IF n = 0 THEN <<>>
    ELSE LET map == topicClicksByDateUpTo_Last7(results, n - 1)
             clickDate == FormatDate(results[n].click_date)
         IN  IF InLast7Days(clickDate)
             THEN AddClicks(map, clickDate, results[n].total_clicks)
             ELSE map

RECURSIVE topicClicksByDateUpTo(_, _)
\* lines 262-264 and 274-277, after the first n records
topicClicksByDateUpTo(results, n) ==
    IF n = 0 THEN <<>>
    ELSE AddClicks(topicClicksByDateUpTo(results, n - 1),
                   FormatDate(results[n].click_date), results[n].total_clicks)

RECURSIVE urlsAnalyticsUpTo_Assign(_, _)
\* (variant) totalClicks = record.total_clicks in place of +=
urlsAnalyticsUpTo_Assign(results, n) ==
    IF n = 0 THEN <<>>
    ELSE LET map == urlsAnalyticsUpTo_Assign(results, n - 1)
             alias == results[n].alias
             map1 == IF \E i \in 1..Len(map) : map[i].alias = alias THEN map
                     ELSE Append(map, [alias |-> alias, totalClicks |-> 0,
                                       uniqueUsers |-> {}])
         IN  [i \in 1..Len(map1) |->
                IF map1[i].alias = alias
                THEN [alias |-> alias,
                      totalClicks |-> results[n].total_clicks,
                      uniqueUsers |-> map1[i].uniqueUsers
                                        \cup {Field(results[n], "ip_address")}]
                ELSE map1[i]]

RECURSIVE urlsAnalyticsUpTo(_, _)
\* lines 266-270, after the first n records
urlsAnalyticsUpTo(results, n) ==
    IF n = 0 THEN <<>>
    ELSE LET map == urlsAnalyticsUpTo(results, n - 1)
             alias == results[n].alias
             map1 == IF \E i \in 1..Len(map) : map[i].alias = alias THEN map
                     ELSE Append(map, [alias |-> alias, totalClicks |-> 0,
                                       uniqueUsers |-> {}])
         IN  [i \in 1..Len(map1) |->
                IF map1[i].alias = alias
                THEN [alias |-> alias,
                      totalClicks |-> map1[i].totalClicks + results[n].total_clicks,
                      uniqueUsers |-> map1[i].uniqueUsers
                                        \cup {Field(results[n], "ip_address")}]
                ELSE map1[i]]

\* lines 280-287: urlInfo is the topic row with that short_url
urlsAnalyticsArray(map, urlsResults) ==
    [i \in 1..Len(map) |->
        LET urlInfo == CHOOSE u \in Range(urlsResults) : u.short_url = map[i].alias
        IN  [shortUrl |-> urlInfo.short_url,
             totalClicks |-> map[i].totalClicks,
             uniqueUsers |-> Cardinality(map[i].uniqueUsers)]]

\* lines 249-295: the response object
TopicReportBody(results, urlsResults) ==
    [totalClicks |-> totalClicksOf(results),
     uniqueUsers |-> uniqueUsersOf(results),
     clicksByDate |-> topicClicksByDateUpTo(results, Len(results)),
     urls |-> urlsAnalyticsArray(urlsAnalyticsUpTo(results, Len(results)),
                                 urlsResults)]

\* lines 216-300.  err1 and err2 are the failures of the two SELECTs.
GetTopicReport(topic, err1, err2) ==
    /\ out = NoResp
    /\ UNCHANGED <<urls, events, pending, today, prev>>
    /\ LET urlsResults == topicUrlsQuery(topic)
           aliases == {urlsResults[i].short_url : i \in 1..Len(urlsResults)}
       IN  out' =
             IF err1
             THEN [op |-> "topic", topic |-> topic, status |-> 500,
                   error |-> "Database error"]
             ELSE IF Len(urlsResults) = 0
             THEN [op |-> "topic", topic |-> topic, status |-> 404,
                   error |-> "No URLs found for the specified topic"]
             ELSE IF err2
             THEN [op |-> "topic", topic |-> topic, status |-> 500,
                   error |-> "Error fetching analytics data"]
             ELSE [op |-> "topic", topic |-> topic, status |-> 200,
                   body |-> TopicReportBody(topicAnalyticsQuery(aliases),
                                            urlsResults)]

\* midnight: the server's clock moves to the next day
Tick ==
    /\ out = NoResp
    /\ today < LastDay
    /\ today' = today + 1
    /\ prev' = NoPrev
    /\ UNCHANGED <<urls, events, pending, out>>

\* ------------------------------------------------------------ read paths
\* The reports are functions of the two tables and of the clock.  Their
\* specifications start from tables the write paths can have left behind
\* and apply the two report handlers; no write belongs to them, so the two
\* SELECTs of a handler see the same tables and the handler is one action.

\* the rows POST /shorten can have stored
UrlRows ==
    {NewUrlRow(b.longUrl, b.customAlias, b.topic, g) :
        b \in {x \in ShortenBodies : ~IsFalsy(x.longUrl)}, g \in Aliases}

\* the urls tables the UNIQUE constraints admit
UrlTables ==
    {t \in UNION {[1..n -> UrlRows] : n \in 0..Cardinality(Aliases)} :
        \A i \in 1..Len(t) : UrlConstraintsOk(t[i], SubSeq(t, 1, i - 1))}

\* the url_analytics tables redirects of the given clients through the
\* given aliases can have stored on the days of ClickDays: ids follow time
EventTables(aliasSet, clientSet) ==
    LET rows == {StoredEvent(NewEventRow(a, c.userAgent, c.ip), d) :
                    a \in aliasSet, c \in clientSet, d \in ClickDays}
    IN  {t \in UNION {[1..n -> rows] : n \in 0..MaxEvents} :
            \A i \in 1..(Len(t) - 1) : t[i].date <= t[i + 1].date}

\* the kinds of client (user-agent header, address) that click
Clients ==
    { [userAgent |-> "Mozilla Windows", ip |-> "1.1.1.1"],
      [userAgent |-> "Mozilla iPhone", ip |-> "2.2.2.2"],
      [userAgent |-> "Mozilla Windows", ip |-> "2.2.2.2"],
      [userAgent |-> "Macintosh", ip |-> "1.1.1.1"],
      [userAgent |-> "X11 Linux", ip |-> "2.2.2.2"],
      [userAgent |-> "Linux Android Mobile", ip |-> "1.1.1.1"],
      [userAgent |-> "Android", ip |-> "2.2.2.2"],
      [userAgent |-> "iOS", ip |-> "1.1.1.1"],
      [userAgent |-> "Opera Mobile", ip |-> "2.2.2.2"],
      [userAgent |-> "curl", ip |-> Undefined],
      [userAgent |-> "", ip |-> "1.1.1.1"],
      [userAgent |-> Undefined, ip |-> "1.1.1.1"] }

ReportAliases == Aliases
ReportTopics == Topics \cup {"U"}

NextReports ==
    \/ \E alias \in ReportAliases, err1 \in BOOLEAN, err2 \in BOOLEAN :
            GetAliasReport(alias, err1, err2)
    \/ \E topic \in ReportTopics, err1 \in BOOLEAN, err2 \in BOOLEAN :
            GetTopicReport(topic, err1, err2)
    \/ Tick
    \/ Deliver

\* any admissible urls table, clicked by one kind of client
InitTopic ==
    /\ urls \in UrlTables
    /\ today = DaysBack
    /\ events \in EventTables({urls[i].short_url : i \in 1..Len(urls)},
                              {[userAgent |-> "Mozilla Windows", ip |-> "1.1.1.1"]})
    /\ pending = EmptyBag
    /\ out = NoResp
    /\ prev = NoPrev

SpecTopic == InitTopic /\ [][NextReports]_vars

\* one registered alias, clicked by every kind of client
InitAgg ==
    /\ urls = <<NewUrlRow("http://x.com", "abc", "T", "tok")>>
    /\ today = DaysBack
    /\ events \in EventTables({"abc"}, Clients)
    /\ pending = EmptyBag
    /\ out = NoResp
    /\ prev = NoPrev

SpecAgg == InitAgg /\ [][NextReports]_vars

\* ------------------------------------------------------------ properties
\* copies of statement c waiting in bag b
CopiesOf(c, b) == IF c \in DOMAIN b THEN b[c] ELSE 0

\* the clicks stored under alias a, and those of day d among them
ClicksOf(a) == {k \in 1..Len(events) : events[k].alias = a}
ClicksOn(a, d) == {k \in ClicksOf(a) : events[k].date = d}

RECURSIVE SumOver(_, _, _)
\* the sum of field f over the first n entries of s
SumOver(s, f, n) == IF n = 0 THEN 0 ELSE SumOver(s, f, n - 1) + s[n][f]

IsAliasReport == out.op = "analytics" /\ out.status = 200
IsTopicReport == out.op = "topic" /\ out.status = 200

\* C1: under every interleaving of check and insert steps of concurrent
\* creates, the stored rows have pairwise distinct short_url, pairwise
\* distinct non-null custom_alias, and no alias string resolves to two rows.
C1_AliasesUnique ==
    /\ \A i, j \in 1..Len(urls) :
          i # j => /\ urls[i].short_url # urls[j].short_url
                   /\ urls[i].custom_alias # Null =>
                          urls[i].custom_alias # urls[j].custom_alias
    /\ \A a \in Aliases :
          Cardinality({i \in 1..Len(urls) :
                          urls[i].short_url = a \/ urls[i].custom_alias = a}) <= 1

\* C1 witness: two creates with the alias "abc" both passed the check; one
\* is stored and the insert of the other has just been refused.
C1_RaceLoserRefused ==
    /\ out.op = "shorten" /\ out.status = 500
    /\ out.error = "Failed to create short URL"
    /\ out.row.custom_alias = "abc"
    /\ \E r \in Range(urls) : r.custom_alias = "abc" /\ r.long_url # out.row.long_url

\* C2: a create whose customAlias is already stored as a custom_alias, its
\* check statement having run, is answered AliasConflict, issues no insert
\* and leaves the urls table as it was.
C2_AliasConflict ==
    [][\A a \in Aliases :
          (\E r \in Range(urls) : r.custom_alias = a) =>
            /\ \A c \in BagToSet(pending') :
                  (c.k = "insertUrl" /\ c.row.custom_alias = a)
                      => CopiesOf(c, pending') <= CopiesOf(c, pending)
            /\ ( /\ out' # out /\ out'.op = "shorten" /\ pending' = pending
                 /\ "row" \in DOMAIN out'
                 /\ out'.row.custom_alias = a
                 /\ out'.error # "Database error" )
               => /\ out'.status = 400
                  /\ out'.error = "Custom alias already in use"
                  /\ urls' = urls]_vars

\* C2 witness: create(x.com, "abc") is stored and create(y.com, "abc") has
\* just been answered AliasConflict.
C2_SecondCreateRefused ==
    /\ out.op = "shorten" /\ out.status = 400
    /\ out.error = "Custom alias already in use"
    /\ out.row.long_url = "http://y.com" /\ out.row.custom_alias = "abc"
    /\ urls = <<NewUrlRow("http://x.com", "abc", "T", "tok")>>

\* C3: the step that resolves the alias of a redirect request writes the
\* redirect to that row's long_url while the analytics insert is still
\* waiting, and the step that executes the analytics insert, failed or
\* not, writes no response.
C3_RedirectNotTiedToLogging ==
    [][/\ ( /\ out' # out /\ out'.op = "redirect" /\ out'.status # 500
            /\ findUrlQuery(out'.alias) # {} )
          => /\ out'.status = 302
             /\ \E r \in findUrlQuery(out'.alias) : out'.location = r.long_url
             /\ events' = events
             /\ \E c \in BagToSet(pending') :
                   /\ c.k = "insertAnalytics" /\ c.row.alias = out'.alias
                   /\ CopiesOf(c, pending') = CopiesOf(c, pending) + 1
       /\ (\E c \in Waiting("insertAnalytics") :
              CopiesOf(c, pending') < CopiesOf(c, pending))
          => out' = NoResp /\ out = NoResp]_vars

\* C3 witness: the redirect has been written and its analytics insert has
\* not yet executed.
C3_RedirectedBeforeLogged ==
    /\ out.op = "redirect" /\ out.status = 302 /\ out.location = "http://y.com"
    /\ \E c \in Waiting("insertAnalytics") : c.row.alias = out.alias
    /\ events = <<>>

\* C4: with both SELECTs succeeding, the alias report is NotFound exactly
\* when no row has that short_url or custom_alias, and for a registered
\* alias without clicks it is the all-zero report.
C4_NotFoundOrZeroReport ==
    (out.op = "analytics" /\ out.status # 500) =>
        /\ (out.status = 404) <=> (findUrlQuery(out.alias) = {})
        /\ (findUrlQuery(out.alias) # {} /\ ClicksOf(out.alias) = {}) =>
              /\ out.status = 200
              /\ out.body = [totalClicks |-> 0, uniqueUsers |-> 0,
                             clicksByDate |-> <<>>, osType |-> <<>>,
                             deviceType |-> <<>>]

\* C4 witness: the all-zero report of a registered alias, while another
\* alias has clicks.
C4_ZeroReport ==
    /\ IsAliasReport /\ out.body.totalClicks = 0
    /\ findUrlQuery(out.alias) # {} /\ events # <<>>

\* C5: for every stored set of clicks of a registered alias (SELECTs
\* succeeding) the alias report comes with osType buckets whose uniqueClicks
\* sum to totalClicks, and deviceType buckets likewise.
C5_BucketsPartition ==
    (out.op = "analytics" /\ out.status # 500 /\ findUrlQuery(out.alias) # {}) =>
        /\ out.status = 200
        /\ SumOver(out.body.osType, "uniqueClicks", Len(out.body.osType))
             = out.body.totalClicks
        /\ SumOver(out.body.deviceType, "uniqueClicks", Len(out.body.deviceType))
             = out.body.totalClicks

\* C6: every entry of the alias report's clicksByDate is the date of a day
\* not earlier than today - 7, no date has two entries, and the entry's
\* clickCount is the number of clicks stored under the alias on that day.
C6_ClicksByDateWindow ==
    IsAliasReport =>
        LET series == out.body.clicksByDate
        IN  /\ \A i \in 1..Len(series) :
                  \E d \in 0..LastDay :
                      /\ d >= today - DaysBack
                      /\ series[i].date = FormatDate(d)
                      /\ series[i].clickCount = Cardinality(ClicksOn(out.alias, d))
            /\ \A i, j \in 1..Len(series) :
                  i # j => series[i].date # series[j].date

\* C6 witness: a report with an entry, computed when a click of the alias
\* is eight days old.
C6_OldClickLeftOut ==
    /\ IsAliasReport /\ today = LastDay
    /\ ClicksOn(out.alias, 0) # {}
    /\ Len(out.body.clicksByDate) >= 1

\* C7: no step of a report handler changes the urls or url_analytics
\* tables, and an alias report answered after another one for the same
\* alias on the same day has the same body.
C7_ReportsReadOnly ==
    [][/\ urls' = urls
       /\ events' = events
       /\ ( /\ out' # out /\ out'.op = "analytics" /\ out'.status = 200
            /\ prev.alias = out'.alias )
          => out'.body = prev.body]_vars

\* C7 witness: a second report for an alias with clicks has been answered.
C7_ReportRepeated ==
    /\ IsAliasReport /\ prev.alias = out.alias /\ prev.again
    /\ out.body.totalClicks > 0

\* C8: the topic report of a topic with rows (SELECTs succeeding) has one
\* urls entry per short_url of the topic that has clicks and none for the
\* others, each entry counts the clicks stored under its alias, the entries
\* sum to totalClicks, and without clicks urls = [] and totalClicks = 0.
C8_TopicUrls ==
    (out.op = "topic" /\ out.status # 500 /\ Len(topicUrlsQuery(out.topic)) > 0) =>
        /\ out.status = 200
        /\ LET entries == out.body.urls
               clicked == {r.short_url : r \in
                             {x \in Range(topicUrlsQuery(out.topic)) :
                                 ClicksOf(x.short_url) # {}}}
           IN  /\ {entries[i].shortUrl : i \in 1..Len(entries)} = clicked
               /\ Len(entries) = Cardinality(clicked)
               /\ \A i \in 1..Len(entries) :
                     entries[i].totalClicks
                        = Cardinality(ClicksOf(entries[i].shortUrl))
               /\ SumOver(entries, "totalClicks", Len(entries))
                    = out.body.totalClicks
               /\ clicked = {} => entries = <<>> /\ out.body.totalClicks = 0

\* C8 witness: a topic of two aliases, one clicked on two days and the
\* other never, reported with the single entry.
C8_UnclickedAliasLeftOut ==
    /\ IsTopicReport
    /\ Len(topicUrlsQuery(out.topic)) = 2
    /\ Len(out.body.urls) = 1 /\ out.body.urls[1].totalClicks = 2
    /\ Len(out.body.clicksByDate) = 2

\* C9: the alias report's uniqueUsers is the number of distinct ip_address
\* values of the grouped tuples, and each osType bucket's uniqueUsers the
\* number of distinct ip_address values of the tuples in that bucket
\* (stated where every tuple groups clicks of one address).
C9_UniqueUsersCountIps ==
    ( /\ IsAliasReport
      /\ \A k, l \in ClicksOf(out.alias) :
            (events[k].date = events[l].date
             /\ events[k].user_agent = events[l].user_agent)
                => events[k].ip_address = events[l].ip_address )
    => /\ out.body.uniqueUsers
            = Cardinality({events[k].ip_address : k \in ClicksOf(out.alias)})
       /\ \A i \in 1..Len(out.body.osType) :
             out.body.osType[i].uniqueUsers
                = Cardinality({events[k].ip_address : k \in
                     {l \in ClicksOf(out.alias) :
                         osNameOf(toLowerCase(UAText[events[l].user_agent]))
                            = out.body.osType[i].osName}})

\* C10 as claimed: the topic report's clicksByDate holds only dates that are
\* >= today - 7 days as YYYY-MM-DD strings.
C10_TopicWindow ==
    IsTopicReport =>
        \A i \in 1..Len(out.body.clicksByDate) :
            StrGeq(out.body.clicksByDate[i].date, sevenDaysAgo)

\* C10 as amended: the topic report's clicksByDate holds the date of every
\* day on which an alias of the topic was clicked, however old, each date
\* once, with the number of clicks of the topic's aliases on that day.
C10_TopicAllDates ==
    IsTopicReport =>
        LET series == out.body.clicksByDate
            rows == Range(topicUrlsQuery(out.topic))
            clicksOn(d) == UNION {ClicksOn(r.short_url, d) : r \in rows}
        IN  /\ {series[i].date : i \in 1..Len(series)}
                 = {FormatDate(d) : d \in {x \in 0..LastDay : clicksOn(x) # {}}}
            /\ \A i, j \in 1..Len(series) :
                  i # j => series[i].date # series[j].date
            /\ \A i \in 1..Len(series) :
                  \E d \in 0..LastDay :
                      /\ series[i].date = FormatDate(d)
                      /\ series[i].clickCount = Cardinality(clicksOn(d))

\* C10 witness: a topic report computed on the last day, with the entry of
\* a click that is eight days old.
C10_OldDateReported ==
    /\ IsTopicReport /\ today = LastDay
    /\ \E i \in 1..Len(out.body.clicksByDate) :
          /\ out.body.clicksByDate[i].date = FormatDate(0)
          /\ ~StrGeq(out.body.clicksByDate[i].date, sevenDaysAgo)

============================================================================
